---- MODULE Spec2Model ----
(***************************************************************************)
(* The license-package generator of src/index.js as a state machine.       *)
(*                                                                         *)
(* A JavaScript string is a sequence of one-character strings, so that     *)
(* concatenation, JSON quoting and the reading back of a string literal    *)
(* are computed character by character.  File names and the labels of the  *)
(* program's positions are atoms (TLA+ strings).  Every awaited call of    *)
(* main is one action: the action is the completion of the call named by   *)
(* pc, followed by the synchronous code up to the next awaited call.       *)
(***************************************************************************)
EXTENDS FiniteSets, Integers, Sequences, TLC

(* Longest license text, in characters, that the environment supplies. *)
MaxTextLen == 1

----------------------------------------------------------------------------
(* Strings *)

SeqsUpTo(S, n) == UNION {[1..k -> S] : k \in 0..n}

(* The characters /\s/ matches, among those the inputs below use. *)
IsWhitespace(c) == c \in {" ", "\t", "\n", "\r"}

HasWhitespace(s) == \E i \in 1..Len(s) : IsWhitespace(s[i])

(* First position at which marker occurs in src, 0 if it does not. *)
IndexOf(src, marker) ==
    LET hits == {i \in 1..(Len(src) - Len(marker) + 1) :
                    SubSeq(src, i, i + Len(marker) - 1) = marker}
    IN  IF hits = {} THEN 0 ELSE CHOOSE i \in hits : \A j \in hits : i <= j

(* JSON.stringify of one character of a string. *)
EscapeChar(c) ==
    CASE c = "\"" -> <<"\\", "\"">>
      [] c = "\\" -> <<"\\", "\\">>
      [] c = "\n" -> <<"\\", "n">>
      [] c = "\t" -> <<"\\", "t">>
      [] c = "\r" -> <<"\\", "r">>
      [] OTHER    -> <<c>>

RECURSIVE EscapeAll(_)
EscapeAll(s) == IF s = <<>> THEN <<>> ELSE EscapeChar(Head(s)) \o EscapeAll(Tail(s))

(* JSON.stringify(s) for a string s: the quoted, escaped literal. *)
JSONStringify(s) == <<"\"">> \o EscapeAll(s) \o <<"\"">>

(* The character an escape sequence \c of a string literal denotes. *)
UnescapeChar(c) ==
    CASE c = "n" -> "\n"
      [] c = "t" -> "\t"
      [] c = "r" -> "\r"
      [] OTHER   -> c

(* The value of the double-quoted string literal whose first character  *)
(* (after the opening quote) is src[i].                                 *)
RECURSIVE LiteralValue(_, _)
LiteralValue(src, i) ==
    IF i > Len(src) \/ src[i] = "\"" THEN <<>>
    ELSE IF src[i] = "\\" /\ i < Len(src)
         THEN <<UnescapeChar(src[i + 1])>> \o LiteralValue(src, i + 2)
         ELSE <<src[i]>> \o LiteralValue(src, i + 1)

(* String(x) for a Promise and for a plain object. *)
PromiseToString == <<"[","o","b","j","e","c","t"," ","P","r","o","m","i","s","e","]">>

ObjectToString == <<"[","o","b","j","e","c","t"," ","O","b","j","e","c","t","]">>

----------------------------------------------------------------------------
(* The environment of a run *)

(* Characters of the license file: quote, backslash, newline, non-ASCII. *)
TextChars == {"\"", "\\", "\n", "é"}

LicenseTexts == SeqsUpTo(TextChars, MaxTextLen)

(* spdx-license-ids: the identifiers the lookup set holds. *)
SpdxLicenseIds == {<<"M","I","T">>, <<"I","S","C">>}

(* What the operator may type at each input question; <<>> is the      *)
(* empty input, which takes the question's default if it has one.       *)
NameInputs == SpdxLicenseIds \cup {<<"M","y"," ","L","i","c","e","n","s","e">>}

ShortNameInputs == {<<"s","p","d","x">>, <<"G","P","L">>, <<"G"," ","L">>}

VersionInputs == {<<>>, <<"2">>, <<"2"," ","0">>}

LongNameInputs == {<<>>, <<"L">>}

AuthorNameInputs == {<<>>, <<"A">>}

AuthorEmailInputs == {<<>>}

(* user.name and user.email of the caller's git configuration. *)
GitConfig == [name |-> <<"G">>, email |-> <<"g","@","x">>]

(* The text of @license-project/CC0-1.0 and of the bundled cc0.txt. *)
CC0PackageText == <<"C","C","0"," ","1",".","0"," ","U","n","i","v","e","r","s","a","l">>

CC0FileText == <<"C","C","0"," ","1",".","0"," ","U","n","i","v","e","r","s","a","l"," ","(",
                 "c","c","0",".","t","x","t",")">>

CommitMessage == <<"I","n","i","t","i","a","l"," ","c","o","m","m","i","t"," ","(","b","y"," ",
                   "@","l","i","c","e","n","s","e","-","p","r","o","j","e","c","t","/","g","e",
                   "n","e","r","a","t","o","r",")">>

(* A directory with no file in it, a repository with no remote. *)
NoFiles == [f \in {} |-> <<>>]

NoDirs == [d \in {} |-> NoFiles]

----------------------------------------------------------------------------
(* The pure parts of main *)

UsageError_TooFew(argvLength) == argvLength < 3

(* process.argv.length != 3 *)
UsageError(argvLength) == argvLength # 3

(* The validate functions of the questions. *)
ValidName(answer) == answer \in SpdxLicenseIds

ValidShortName_Any(answer) == TRUE

ValidShortName(answer) == ~HasWhitespace(answer)

ValidLongName(answer) == answer # <<>>

ValidVersion(answer) == ~HasWhitespace(answer)

ValidAuthor(answer) == answer # <<>>

(* What an input question yields for what was typed: the default stands *)
(* in for an empty input.                                               *)
InputOrDefault(typed, default) == IF typed = <<>> THEN default ELSE typed

ResolveName_NoDash(a) ==
    IF ~a.spdx THEN a.shortName \o a.version ELSE a.name

(* answers.name after lines 98-100. *)
ResolveName(a) ==
    IF ~a.spdx THEN a.shortName \o <<"-">> \o a.version ELSE a.name

(* The entry of the keywords array that filter(x => x != null) drops. *)
Null == <<"null">>

Keywords_NoTag(a) == <<<<"l","i","c","e","n","s","e","-","p","r","o","j","e","c","t">>, <<"l","i","c","e","n","s","e">>, a.name>>

Keywords(a) ==
    SelectSeq(<<<<"l","i","c","e","n","s","e","-","p","r","o","j","e","c","t">>, <<"l","i","c","e","n","s","e">>,
                IF a.spdx THEN <<"s","p","d","x">> ELSE Null,
                a.name>>,
              LAMBDA x : x # Null)

RepositoryUrl(name) == <<"h","t","t","p","s",":","/","/","g","i","t","h","u","b",".","c","o",
                         "m","/","l","i","c","e","n","s","e","-","p","r","o","j","e","c","t",
                         "/">> \o name

RemoteUrl_NoSuffix(name) == <<"g","i","t","@","g","i","t","h","u","b",".","c","o","m",":","l",
                              "i","c","e","n","s","e","-","p","r","o","j","e","c","t","/">> \o name

RemoteUrl(name) == <<"g","i","t","@","g","i","t","h","u","b",".","c","o","m",":","l","i","c",
                     "e","n","s","e","-","p","r","o","j","e","c","t","/">> \o name \o <<".","g","i","t">>

(* The package object of lines 102-123, a being answers after line 100. *)
Package(a) ==
    [name        |-> <<"@","l","i","c","e","n","s","e","-","p","r","o","j","e","c","t","/">> \o a.name,
     version     |-> <<"1",".","0",".","0">>,
     description |-> a.longName,
     keywords    |-> Keywords(a),
     license     |-> <<"C","C","0","-","1",".","0">>,
     author      |-> [name |-> a.authorName, email |-> a.authorEmail],
     esnext      |-> <<"i","n","d","e","x",".","m","j","s">>,
     main        |-> <<"i","n","d","e","x",".","j","s">>,
     repository  |-> [type |-> <<"g","i","t">>, url |-> RepositoryUrl(a.name)]]

NoPackage == [k \in {} |-> <<>>]

(* The index template of lines 125-141, cut at its three substitutions. *)
IndexHead == 
    <<"\n","\n"," "," "," "," ","/","*","\n"," "," "," "," "," ","*"," ","T","h","e"," ">>

IndexNameExport == 
    <<" ","p","a","c","k","a","g","e"," ","f","r","o","m"," ","T","h","e"," ","L","i","c","e",
      "n","s","e"," ","P","r","o","j","e","c","t","\n"," "," "," "," "," ","*","\n"," "," "," ",
      " "," ","*"," ","T","o"," ","t","h","e"," ","e","x","t","e","n","t"," ","p","o","s","s",
      "i","b","l","e"," ","u","n","d","e","r"," ","l","a","w",","," ","t","h","e"," ","p","e",
      "r","s","o","n"," ","w","h","o"," ","a","s","s","o","c","i","a","t","e","d"," ","C","C",
      "0"," ","w","i","t","h","\n"," "," "," "," "," ","*"," ","t","h","i","s"," ","p","a","c",
      "k","a","g","e"," ","f","r","o","m"," ","T","h","e"," ","L","i","c","e","n","s","e"," ",
      "P","r","o","j","e","c","t"," ","h","a","s"," ","w","a","i","v","e","d"," ","a","l","l",
      " ","c","o","p","y","r","i","g","h","t"," ","a","n","d","\n"," "," "," "," "," ","*"," ",
      "r","e","l","a","t","e","d"," ","o","r"," ","n","e","i","g","h","b","o","r","i","n","g",
      " ","r","i","g","h","t","s"," ","t","o"," ","t","h","i","s"," ","p","a","c","k","a","g",
      "e"," ","f","r","o","m"," ","T","h","e"," ","L","i","c","e","n","s","e"," ","P","r","o",
      "j","e","c","t",".","\n"," "," "," "," "," ","*"," ","\n"," "," "," "," "," ","*"," ","Y",
      "o","u"," ","s","h","o","u","l","d"," ","h","a","v","e"," ","r","e","c","e","i","v","e",
      "d"," ","a"," ","c","o","p","y"," ","o","f"," ","t","h","e"," ","C","C","0"," ","l","e",
      "g","a","l","c","o","d","e"," ","a","l","o","n","g"," ","w","i","t","h"," ","t","h","i",
      "s","\n"," "," "," "," "," ","*"," ","w","o","r","k","."," ","I","f"," ","n","o","t",",",
      " ","s","e","e"," ","<","h","t","t","p",":","/","/","c","r","e","a","t","i","v","e","c",
      "o","m","m","o","n","s",".","o","r","g","/","p","u","b","l","i","c","d","o","m","a","i",
      "n","/","z","e","r","o","/","1",".","0","/",">",".","\n"," "," "," "," "," ","*","/","\n",
      "\n"," "," "," "," ","e","x","p","o","r","t"," ","c","o","n","s","t"," ","n","a","m","e",
      " ","="," ">>

IndexTextExport == 
    <<";","\n"," "," "," "," ","e","x","p","o","r","t"," ","c","o","n","s","t"," ","t","e","x",
      "t"," ","="," ">>

IndexTail == 
    <<";","\n","\n"," "," "," "," ">>

Index(name, text) ==
    IndexHead \o name \o IndexNameExport \o JSONStringify(name)
        \o IndexTextExport \o JSONStringify(text) \o IndexTail

(* The value a module's source gives its exported string constant:      *)
(* the literal that follows the first "export const <binding> = ".      *)
ExportedBinding(src, binding) ==
    LET marker == <<"e","x","p","o","r","t"," ","c","o","n","s","t"," ">> \o binding \o <<" ","="," ">>
        p      == IndexOf(src, marker)
    IN  IF p = 0 THEN <<>> ELSE LiteralValue(src, p + Len(marker) + 1)

(* babel.transformAsync with @babel/preset-env: the result object, whose *)
(* code exports the source's two bindings the CommonJS way.              *)
TransformResult(src) ==
    [code |-> <<"\"","u","s","e"," ","s","t","r","i","c","t","\"",";","\n","\n","O","b","j","e",
                "c","t",".","d","e","f","i","n","e","P","r","o","p","e","r","t","y","(","e","x",
                "p","o","r","t","s",","," ","\"","_","_","e","s","M","o","d","u","l","e","\"",
                ","," ","{","\n"," "," ","v","a","l","u","e",":"," ","t","r","u","e","\n","}",
                ")",";","\n","e","x","p","o","r","t","s",".","t","e","x","t"," ","="," ","e",
                "x","p","o","r","t","s",".","n","a","m","e"," ","="," ","v","o","i","d"," ","0",
                ";","\n","v","a","r"," ","n","a","m","e"," ","="," ">>
                \o JSONStringify(ExportedBinding(src, <<"n","a","m","e">>))
                \o <<";","\n","e","x","p","o","r","t","s",".","n","a","m","e"," ","="," ","n",
                     "a","m","e",";","\n","v","a","r"," ","t","e","x","t"," ","="," ">>
                \o JSONStringify(ExportedBinding(src, <<"t","e","x","t">>))
                \o <<";","\n","e","x","p","o","r","t","s",".","t","e","x","t"," ","="," ","t",
                     "e","x","t",";">>]

NoResult == [code |-> <<>>]

(* Spaces of one level of JSON.stringify(package, null, 4). *)
IndentWidth == 4

Indent(level) == [i \in 1..(IndentWidth * level) |-> " "]

RECURSIVE Join(_, _)
Join(items, sep) ==
    IF items = <<>> THEN <<>>
    ELSE IF Len(items) = 1 THEN items[1]
    ELSE items[1] \o sep \o Join(Tail(items), sep)

(* An object or array of JSON.stringify(_, null, 4), items being its    *)
(* members already rendered, level the depth of the opening bracket.    *)
Block(open, close, items, level) ==
    IF items = <<>> THEN <<open, close>>
    ELSE <<open, "\n">>
         \o Join([i \in 1..Len(items) |-> Indent(level + 1) \o items[i]], <<",", "\n">>)
         \o <<"\n">> \o Indent(level) \o <<close>>

Member(key, rendered) == JSONStringify(key) \o <<":", " ">> \o rendered

(* JSON.stringify(package, null, 4) *)
StringifyPackage(p) ==
    Block("{", "}",
      <<Member(<<"n","a","m","e">>, JSONStringify(p.name)),
        Member(<<"v","e","r","s","i","o","n">>, JSONStringify(p.version)),
        Member(<<"d","e","s","c","r","i","p","t","i","o","n">>, JSONStringify(p.description)),
        Member(<<"k","e","y","w","o","r","d","s">>,
               Block("[", "]",
                     [i \in 1..Len(p.keywords) |-> JSONStringify(p.keywords[i])], 1)),
        Member(<<"l","i","c","e","n","s","e">>, JSONStringify(p.license)),
        Member(<<"a","u","t","h","o","r">>,
               Block("{", "}",
                     <<Member(<<"n","a","m","e">>, JSONStringify(p.author.name)),
                       Member(<<"e","m","a","i","l">>, JSONStringify(p.author.email))>>, 1)),
        Member(<<"e","s","n","e","x","t">>, JSONStringify(p.esnext)),
        Member(<<"m","a","i","n">>, JSONStringify(p.main)),
        Member(<<"r","e","p","o","s","i","t","o","r","y">>,
               Block("{", "}",
                     <<Member(<<"t","y","p","e">>, JSONStringify(p.repository.type)),
                       Member(<<"u","r","l">>, JSONStringify(p.repository.url))>>, 1))>>,
      0)

ThenExit_Zero(result) == 0

(* main().then(result => process.exit(result || 0)): result is <<>> for  *)
(* undefined and <<n>> for the number n.                                 *)
ThenExit(result) == IF result = <<>> \/ result[1] = 0 THEN 0 ELSE result[1]

(* process.exit(1) of the unhandledRejection handler, line 6. *)
RejectionExit == 1

(* The exit code of node for an exception thrown at module level. *)
UncaughtExit == 1

(* return 1 of the usage check, line 33. *)
UsageResult == 1

(* mkdir rejects (EEXIST) when the name is taken. *)
MkdirFails_Never(files, name) == FALSE

MkdirFails(files, name) == name \in DOMAIN files

(* A repository as Git.Repository.init leaves it. *)
NewRepository ==
    [bare |-> FALSE, index |-> NoFiles, trees |-> {}, commits |-> <<>>,
     remotes |-> [r \in {} |-> <<>>]]

----------------------------------------------------------------------------
(* State *)

VARIABLES
    argvLength,   \* process.argv.length of the run
    licenseFile,  \* the file at process.argv[2]: [readable, data]
    coercesData,  \* the platform's writeFile writes String(data) for an object
                  \* (it throws a TypeError otherwise)
    cc0Source,    \* where the waiver text can come from: "package" (the require
                  \* of line 23 resolves), "file" (it throws and cc0.txt is read),
                  \* "none" (both throw)
    flaky,        \* calls of the run may fail for reasons outside the program
    cc0,          \* the module-level cc0
    pc,           \* the call main is waiting for, or "start", "Done", "Failed"
    exitCode,     \* the argument of process.exit, once pc is "Done" or "Failed"
    readState,    \* the promise of readFileAsync, line 36
    licenseText,
    gitName,
    gitEmail,
    answers,
    package,
    index,
    es5Index,
    gitIndex,     \* the entries of the in-memory index, path -> content
    oid,          \* the tree written from the index
    fs,           \* directories of the working directory: name -> (file -> content)
    repos,        \* repositories of the working directory: name -> repository
    log,          \* history: the calls main has made, in order
    failure,      \* history: the call whose failure ended the run, or "none"
    interview,    \* history: answers as inquirer.prompt returned them
    secondRun,    \* history: this is a second invocation on the same disk
    fs0,          \* history: fs and repos when the run started
    repos0

envVars == <<argvLength, licenseFile, coercesData, cc0Source, flaky>>

runVars == <<secondRun, fs0, repos0>>

configVars == <<gitName, gitEmail>>

synthVars == <<package, index, es5Index>>

stageVars == <<gitIndex, oid>>

vars ==
    <<argvLength, licenseFile, coercesData, cc0Source, flaky, cc0, pc, exitCode,
      readState, licenseText, gitName, gitEmail, answers, package, index,
      es5Index, gitIndex, oid, fs, repos, log, failure, interview, secondRun,
      fs0, repos0>>

Terminal == {"Done", "Failed"}

(* The state of the process when node starts it. *)
ProcessStart ==
    /\ cc0 = [text |-> <<>>]
    /\ pc = "start"
    /\ exitCode = 0
    /\ readState = "none"
    /\ licenseText = <<>>
    /\ gitName = <<>>
    /\ gitEmail = <<>>
    /\ answers = NoPackage
    /\ interview = NoPackage
    /\ package = NoPackage
    /\ index = <<>>
    /\ es5Index = NoResult
    /\ gitIndex = NoFiles
    /\ oid = NoFiles
    /\ log = <<>>
    /\ failure = "none"

Init ==
    /\ argvLength \in {2, 3, 4}
    /\ licenseFile \in [readable : {TRUE}, data : LicenseTexts]
                          \cup {[readable |-> FALSE, data |-> <<>>]}
    /\ coercesData \in BOOLEAN
    /\ cc0Source \in {"package", "file", "none"}
    /\ flaky \in BOOLEAN
    /\ ProcessStart
    /\ fs = NoDirs
    /\ repos = NoDirs
    /\ secondRun = FALSE
    /\ fs0 = NoDirs
    /\ repos0 = NoDirs

----------------------------------------------------------------------------
(* Steps of control *)

(* How an awaited call may end: TRUE is success.  A call also fails when *)
(* the state of the disk makes it fail, whatever is chosen here.         *)
Outcomes == IF flaky THEN BOOLEAN ELSE {TRUE}

(* main makes the call op and waits for it. *)
Call(op) ==
    /\ pc' = op
    /\ log' = Append(log, op)
    /\ UNCHANGED <<exitCode, failure>>

(* The awaited call op rejects: main rejects, nothing handles it, and   *)
(* the unhandledRejection handler of lines 4-7 exits.                   *)
Reject(op) ==
    /\ pc' = "Failed"
    /\ exitCode' = RejectionExit
    /\ failure' = op
    /\ UNCHANGED log

(* main returns result and the then-callback of line 170 exits. *)
Return(result) ==
    /\ pc' = IF result = <<>> THEN "Done" ELSE "Failed"
    /\ exitCode' = ThenExit(result)
    /\ UNCHANGED <<log, failure>>

Bootstrap_Unresolved ==
    /\ pc = "start"
    /\ pc' = "main"
    /\ UNCHANGED <<envVars, runVars, configVars, synthVars, stageVars, cc0, exitCode,
                   failure, readState, licenseText, answers, interview, fs, repos, log>>

(* Lines 20-28: the waiver text, from the package or from cc0.txt; if   *)
(* readFileSync throws too, the exception is uncaught and node exits.    *)
Bootstrap ==
    /\ pc = "start"
    /\ IF cc0Source = "none"
       THEN /\ pc' = "Failed"
            /\ exitCode' = UncaughtExit
            /\ failure' = "readFileSync cc0.txt"
            /\ UNCHANGED cc0
       ELSE /\ cc0' = [text |-> IF cc0Source = "package" THEN CC0PackageText
                                                         ELSE CC0FileText]
            /\ pc' = "main"
            /\ UNCHANGED <<exitCode, failure>>
    /\ UNCHANGED <<envVars, runVars, configVars, synthVars, stageVars, readState,
                   licenseText, answers, interview, fs, repos, log>>

(* Lines 31-38: the usage check; then readFileAsync is called, the       *)
(* promise it returns is turned into a string at once, and main goes on  *)
(* to open the git configuration.                                        *)
CheckUsage ==
    /\ pc = "main"
    /\ IF UsageError(argvLength)
       THEN /\ Return(<<UsageResult>>)
            /\ UNCHANGED <<readState, licenseText>>
       ELSE /\ readState' = "pending"
            /\ licenseText' = PromiseToString
            /\ pc' = "Config.openDefault"
            /\ log' = log \o <<"readFile", "Config.openDefault">>
            /\ UNCHANGED <<exitCode, failure>>
    /\ UNCHANGED <<envVars, runVars, configVars, synthVars, stageVars, cc0, answers,
                   interview, fs, repos>>

(* The read of the license file settles while main is doing something    *)
(* else.  Nothing reads its value; its rejection is unhandled and the    *)
(* handler of lines 4-7 exits.                                           *)
ReadSettles ==
    /\ readState = "pending"
    /\ pc \notin Terminal
    /\ IF licenseFile.readable
       THEN /\ readState' = "fulfilled"
            /\ UNCHANGED <<pc, exitCode, log, failure>>
       ELSE /\ readState' = "rejected"
            /\ Reject("readFile")
    /\ UNCHANGED <<envVars, runVars, configVars, synthVars, stageVars, cc0, licenseText,
                   answers, interview, fs, repos>>

(* Lines 38-42: the git configuration. *)
OpenDefault ==
    /\ pc = "Config.openDefault"
    /\ \E ok \in Outcomes :
          IF ok THEN Call("getString user.name") ELSE Reject(pc)
    /\ UNCHANGED <<envVars, runVars, configVars, synthVars, stageVars, cc0, readState,
                   licenseText, answers, interview, fs, repos>>

GetUserName ==
    /\ pc = "getString user.name"
    /\ \E ok \in Outcomes :
          IF ok THEN gitName' = GitConfig.name /\ Call("getString user.email")
                ELSE Reject(pc) /\ UNCHANGED gitName
    /\ UNCHANGED <<envVars, runVars, gitEmail, synthVars, stageVars, cc0, readState,
                   licenseText, answers, interview, fs, repos>>

GetUserEmail ==
    /\ pc = "getString user.email"
    /\ \E ok \in Outcomes :
          IF ok THEN gitEmail' = GitConfig.email /\ Call("prompt spdx")
                ELSE Reject(pc) /\ UNCHANGED gitEmail
    /\ UNCHANGED <<envVars, runVars, gitName, synthVars, stageVars, cc0, readState,
                   licenseText, answers, interview, fs, repos>>

----------------------------------------------------------------------------
(* Lines 42-96: the interview.  A question whose when is false is not    *)
(* asked; an input whose validate does not return true is asked again,   *)
(* so only a valid answer is recorded.  A confirm question takes no      *)
(* validate: either answer is recorded.                                  *)

Answered(question, answer, next) ==
    /\ pc = "prompt " \o question
    /\ answers' = (question :> answer) @@ answers
    /\ Call("prompt " \o next)
    /\ UNCHANGED <<envVars, runVars, configVars, synthVars, stageVars, cc0, readState,
                   licenseText, interview, fs, repos>>

AskSpdx ==
    \E answer \in BOOLEAN :
        Answered("spdx", answer, IF answer THEN "name" ELSE "shortName")

AskName ==
    \E typed \in NameInputs :
        ValidName(typed) /\ Answered("name", typed, "longName")

AskShortName ==
    \E typed \in ShortNameInputs :
        ValidShortName(typed) /\ Answered("shortName", typed, "longName")

AskLongName ==
    \E typed \in LongNameInputs :
        /\ ValidLongName(typed)
        /\ Answered("longName", typed, IF answers.spdx THEN "authorName" ELSE "version")

AskVersion ==
    \E typed \in VersionInputs :
        ValidVersion(typed) /\ Answered("version", typed, "authorName")

AskAuthorName ==
    \E typed \in AuthorNameInputs :
        LET answer == InputOrDefault(typed, gitName)
        IN  ValidAuthor(answer) /\ Answered("authorName", answer, "authorEmail")

AskAuthorEmail ==
    \E typed \in AuthorEmailInputs :
        LET answer == InputOrDefault(typed, gitEmail)
        IN  ValidAuthor(answer) /\ Answered("authorEmail", answer, "license")

(* The last question; then lines 98-149, up to the call of babel. *)
AskLicense ==
    /\ pc = "prompt license"
    /\ \E answer \in BOOLEAN :
          LET returned == ("license" :> answer) @@ answers
              resolved == ("name" :> ResolveName(returned)) @@ returned
          IN  /\ interview' = returned
              /\ answers' = resolved
              /\ package' = Package(resolved)
              /\ index' = Index(resolved.name, licenseText)
    /\ Call("transformAsync")
    /\ UNCHANGED <<envVars, runVars, configVars, es5Index, stageVars, cc0, readState,
                   licenseText, fs, repos>>

----------------------------------------------------------------------------
(* Lines 143-155: compile and write *)

(* The directory of the run: join(answers.name, ...) and, under          *)
(* process.cwd(), gitPath.                                               *)
Dir == answers.name

Transform_MkdirFirst ==
    /\ pc = "transformAsync"
    /\ fs' = IF Dir \in DOMAIN fs THEN fs ELSE (Dir :> NoFiles) @@ fs
    /\ \E ok \in Outcomes :
          IF ok THEN es5Index' = TransformResult(index) /\ Call("mkdir")
                ELSE Reject(pc) /\ UNCHANGED es5Index
    /\ UNCHANGED <<envVars, runVars, configVars, package, index, stageVars, cc0,
                   readState, licenseText, answers, interview, repos>>

(* Lines 143-151: babel settles; then mkdir is called. *)
Transform ==
    /\ pc = "transformAsync"
    /\ \E ok \in Outcomes :
          IF ok THEN es5Index' = TransformResult(index) /\ Call("mkdir")
                ELSE Reject(pc) /\ UNCHANGED es5Index
    /\ UNCHANGED <<envVars, runVars, configVars, package, index, stageVars, cc0,
                   readState, licenseText, answers, interview, fs, repos>>

Mkdir_ThenCompile ==
    /\ pc = "mkdir"
    /\ \E ok \in Outcomes :
          IF ok /\ ~MkdirFails(fs, Dir)
          THEN fs' = (Dir :> NoFiles) @@ fs /\ Call("transformAsync")
          ELSE Reject(pc) /\ UNCHANGED fs
    /\ UNCHANGED <<envVars, runVars, configVars, synthVars, stageVars, cc0, readState,
                   licenseText, answers, interview, repos>>

(* Lines 151-152: mkdir settles; then package.json is written. *)
Mkdir ==
    /\ pc = "mkdir"
    /\ \E ok \in Outcomes :
          IF ok /\ ~MkdirFails(fs, Dir)
          THEN fs' = (Dir :> NoFiles) @@ fs /\ Call("writeFile package.json")
          ELSE Reject(pc) /\ UNCHANGED fs
    /\ UNCHANGED <<envVars, runVars, configVars, synthVars, stageVars, cc0, readState,
                   licenseText, answers, interview, repos>>

Written_Rollback(file, data, next) ==
    /\ pc = "writeFile " \o file
    /\ \E ok \in Outcomes :
          IF ok /\ Dir \in DOMAIN fs
          THEN fs' = [fs EXCEPT ![Dir] = (file :> data) @@ @] /\ Call(next)
          ELSE Reject(pc) /\ fs' = [d \in DOMAIN fs \ {Dir} |-> fs[d]]
    /\ UNCHANGED <<envVars, runVars, configVars, synthVars, stageVars, cc0, readState,
                   licenseText, answers, interview, repos>>

(* writeFileAsync(join(answers.name, file), data) settles. *)
Written(file, data, next) ==
    /\ pc = "writeFile " \o file
    /\ \E ok \in Outcomes :
          IF ok /\ Dir \in DOMAIN fs
          THEN fs' = [fs EXCEPT ![Dir] = (file :> data) @@ @] /\ Call(next)
          ELSE Reject(pc) /\ UNCHANGED fs
    /\ UNCHANGED <<envVars, runVars, configVars, synthVars, stageVars, cc0, readState,
                   licenseText, answers, interview, repos>>

WritePackageJson ==
    Written("package.json", StringifyPackage(package), "writeFile index.mjs")

WriteIndexMjs == Written("index.mjs", index, "writeFile index.js")

(* Line 154 hands writeFile the result object of babel, not its code:    *)
(* the platform writes String(es5Index) or throws a TypeError.           *)
WriteIndexJs ==
    IF coercesData
    THEN Written("index.js", ObjectToString, "writeFile LICENSE")
    ELSE /\ pc = "writeFile index.js"
         /\ Reject(pc)
         /\ UNCHANGED <<envVars, runVars, configVars, synthVars, stageVars, cc0,
                        readState, licenseText, answers, interview, fs, repos>>

WriteLicense_LicenseText == Written("LICENSE", licenseText, "Repository.init")

WriteLicense == Written("LICENSE", cc0.text, "Repository.init")

----------------------------------------------------------------------------
(* Lines 157-169: the repository *)

RepositoryInit ==
    /\ pc = "Repository.init"
    /\ \E ok \in Outcomes :
          IF ok /\ Dir \in DOMAIN fs
          THEN /\ repos' = IF Dir \in DOMAIN repos THEN repos
                           ELSE (Dir :> NewRepository) @@ repos
               /\ Call("refreshIndex")
          ELSE Reject(pc) /\ UNCHANGED repos
    /\ UNCHANGED <<envVars, runVars, configVars, synthVars, stageVars, cc0, readState,
                   licenseText, answers, interview, fs>>

RefreshIndex ==
    /\ pc = "refreshIndex"
    /\ \E ok \in Outcomes :
          IF ok THEN gitIndex' = repos[Dir].index /\ Call("addByPath package.json")
                ELSE Reject(pc) /\ UNCHANGED gitIndex
    /\ UNCHANGED <<envVars, runVars, configVars, synthVars, oid, cc0, readState,
                   licenseText, answers, interview, fs, repos>>

(* gitIndex.addByPath(file) settles: the entry holds the file's content. *)
Added(file, next) ==
    /\ pc = "addByPath " \o file
    /\ \E ok \in Outcomes :
          IF ok /\ file \in DOMAIN fs[Dir]
          THEN gitIndex' = (file :> fs[Dir][file]) @@ gitIndex /\ Call(next)
          ELSE Reject(pc) /\ UNCHANGED gitIndex
    /\ UNCHANGED <<envVars, runVars, configVars, synthVars, oid, cc0, readState,
                   licenseText, answers, interview, fs, repos>>

AddPackageJson == Added("package.json", "addByPath index.mjs")

AddIndexMjs == Added("index.mjs", "addByPath index.js")

AddIndexJs == Added("index.js", "addByPath LICENSE")

AddLicense_NoWrite == Added("LICENSE", "writeTree")

AddLicense == Added("LICENSE", "index.write")

IndexWrite ==
    /\ pc = "index.write"
    /\ \E ok \in Outcomes :
          IF ok THEN repos' = [repos EXCEPT ![Dir].index = gitIndex] /\ Call("writeTree")
                ELSE Reject(pc) /\ UNCHANGED repos
    /\ UNCHANGED <<envVars, runVars, configVars, synthVars, stageVars, cc0, readState,
                   licenseText, answers, interview, fs>>

(* writeTree; then Signature.now and the call of createCommit. *)
WriteTree ==
    /\ pc = "writeTree"
    /\ \E ok \in Outcomes :
          IF ok
          THEN /\ oid' = gitIndex
               /\ repos' = [repos EXCEPT ![Dir].trees = @ \cup {gitIndex}]
               /\ Call("createCommit")
          ELSE Reject(pc) /\ UNCHANGED <<oid, repos>>
    /\ UNCHANGED <<envVars, runVars, configVars, synthVars, gitIndex, cc0, readState,
                   licenseText, answers, interview, fs>>

Signature_Swapped(name, email) == [name |-> email, email |-> name]

(* Git.Signature.now(name, email); the time of the signature is left out. *)
Signature(name, email) == [name |-> name, email |-> email]

(* The commit of line 167: author twice, the tree, no parent. *)
Commit(author, committer, message, tree, parents) ==
    [author |-> author, committer |-> committer, message |-> message,
     tree |-> tree, parents |-> parents]

CreateCommit ==
    /\ pc = "createCommit"
    /\ \E ok \in Outcomes :
          IF ok
          THEN LET author == Signature(answers.authorName, answers.authorEmail)
               IN  /\ repos' = [repos EXCEPT ![Dir].commits =
                                   Append(@, Commit(author, author, CommitMessage, oid, <<>>))]
                   /\ Call("Remote.create")
          ELSE Reject(pc) /\ UNCHANGED repos
    /\ UNCHANGED <<envVars, runVars, configVars, synthVars, stageVars, cc0, readState,
                   licenseText, answers, interview, fs>>

(* Line 169; then main returns undefined and line 170 exits. *)
RemoteCreate ==
    /\ pc = "Remote.create"
    /\ \E ok \in Outcomes :
          IF ok /\ "origin" \notin DOMAIN repos[Dir].remotes
          THEN /\ repos' = [repos EXCEPT ![Dir].remotes = ("origin" :> RemoteUrl(Dir)) @@ @]
               /\ Return(<<>>)
          ELSE Reject(pc) /\ UNCHANGED repos
    /\ UNCHANGED <<envVars, runVars, configVars, synthVars, stageVars, cc0, readState,
                   licenseText, answers, interview, fs>>

----------------------------------------------------------------------------
(* The generator is started once more in the same working directory. *)
Rerun ==
    /\ pc \in Terminal
    /\ ~secondRun
    /\ secondRun' = TRUE
    /\ fs0' = fs
    /\ repos0' = repos
    /\ cc0' = [text |-> <<>>]
    /\ pc' = "start"
    /\ exitCode' = 0
    /\ readState' = "none"
    /\ licenseText' = <<>>
    /\ gitName' = <<>>
    /\ gitEmail' = <<>>
    /\ answers' = NoPackage
    /\ interview' = NoPackage
    /\ package' = NoPackage
    /\ index' = <<>>
    /\ es5Index' = NoResult
    /\ gitIndex' = NoFiles
    /\ oid' = NoFiles
    /\ log' = <<>>
    /\ failure' = "none"
    /\ UNCHANGED <<envVars, fs, repos>>

Next ==
    \/ Bootstrap
    \/ CheckUsage
    \/ ReadSettles
    \/ OpenDefault
    \/ GetUserName
    \/ GetUserEmail
    \/ AskSpdx
    \/ AskName
    \/ AskShortName
    \/ AskLongName
    \/ AskVersion
    \/ AskAuthorName
    \/ AskAuthorEmail
    \/ AskLicense
    \/ Transform
    \/ Mkdir
    \/ WritePackageJson
    \/ WriteIndexMjs
    \/ WriteIndexJs
    \/ WriteLicense
    \/ RepositoryInit
    \/ RefreshIndex
    \/ AddPackageJson
    \/ AddIndexMjs
    \/ AddIndexJs
    \/ AddLicense
    \/ IndexWrite
    \/ WriteTree
    \/ CreateCommit
    \/ RemoteCreate

Spec == Init /\ [][Next]_vars

(* Two invocations, one after the other, on one disk. *)
NextTwice == Next \/ Rerun

InitTwice ==
    /\ Init
    /\ argvLength = 3
    /\ licenseFile = [readable |-> TRUE, data |-> <<>>]
    /\ cc0Source = "package"
    /\ ~flaky

SpecTwice == InitTwice /\ [][NextTwice]_vars

----------------------------------------------------------------------------
(* Properties *)

(* main has made the call op. *)
Called(op) == \E i \in 1..Len(log) : log[i] = op

(* The interview has returned its record. *)
Interviewed == interview # NoPackage

(* What this run has created on disk. *)
CreatedDirs == DOMAIN fs \ DOMAIN fs0

(* C1: the text binding of the synthesized module, read back, is the    *)
(* content of the license file named on the command line.               *)
C1_TextRoundTrip ==
    (index # <<>> /\ licenseFile.readable)
        => ExportedBinding(index, <<"t","e","x","t">>) = licenseFile.data

(* C2, as stated: once LICENSE is written it holds the content of the   *)
(* license file named on the command line.                              *)
C2_LicenseFileIsLicenseText ==
    (Called("Repository.init") /\ licenseFile.readable)
        => fs[Dir]["LICENSE"] = licenseFile.data

(* C2, amended: once LICENSE is written it holds the waiver text that   *)
(* the bootstrap resolved, from the package or else from cc0.txt.       *)
C2_LicenseFileIsWaiverText ==
    Called("Repository.init")
        => fs[Dir]["LICENSE"] = IF cc0Source = "package" THEN CC0PackageText
                                                         ELSE CC0FileText

C2_Witness ==
    /\ Called("Repository.init")
    /\ licenseFile.readable
    /\ licenseFile.data # <<>>
    /\ fs[Dir]["LICENSE"] = CC0FileText

(* C3: index.js holds the code the compiler returned, and writing it    *)
(* fails only if the file system refuses the write.                     *)
C3_IndexJsIsCompiledForm ==
    /\ Called("writeFile LICENSE") => fs[Dir]["index.js"] = es5Index.code
    /\ failure = "writeFile index.js" => flaky

(* C4: a run whose argument count is not one positional argument makes  *)
(* no call at all (no read, no git configuration, no question, no       *)
(* directory, no repository) and exits with code 1.                     *)
C4_UsageError ==
    argvLength # 3
        => /\ log = <<>>
           /\ readState = "none"
           /\ answers = NoPackage
           /\ fs = fs0
           /\ repos = repos0
           /\ pc \in {"start", "main", "Failed"}
           /\ pc = "Failed" => exitCode = 1

C4_Witness == argvLength = 4 /\ pc = "Failed" /\ exitCode = 1 /\ log = <<>>

(* C5: for an SPDX-listed license the name is the identifier given, the  *)
(* full name is "@license-project/" and the identifier, and the keywords *)
(* are license-project, license, spdx, name.                             *)
C5_SpdxIdentity ==
    (Interviewed /\ interview.spdx)
        => /\ answers.name = interview.name
           /\ package.name = <<"@","l","i","c","e","n","s","e","-","p","r","o","j","e","c","t",
                               "/">> \o interview.name
           /\ package.keywords =
                  <<<<"l","i","c","e","n","s","e","-","p","r","o","j","e","c","t">>, <<"l","i","c","e","n","s","e">>, <<"s","p","d","x">>, interview.name>>

C5_Witness ==
    /\ Interviewed
    /\ interview.spdx
    /\ interview.name = <<"M","I","T">>
    /\ package.keywords[3] = <<"s","p","d","x">>

(* C6: for a license that is not SPDX-listed the name is the short name, *)
(* "-" and the version (which may be empty), and no keyword is "spdx".   *)
C6_NonSpdxIdentity ==
    (Interviewed /\ ~interview.spdx)
        => /\ answers.name = interview.shortName \o <<"-">> \o interview.version
           /\ \A i \in 1..Len(package.keywords) : package.keywords[i] # <<"s","p","d","x">>

C6_Witness ==
    /\ Interviewed
    /\ ~interview.spdx
    /\ interview.shortName = <<"s","p","d","x">>
    /\ interview.version = <<>>
    /\ answers.name = <<"s","p","d","x","-">>
    /\ Len(package.keywords) = 3

(* C7: the manifest's repository.url is the https prefix and the name,   *)
(* the remote's URL is the ssh prefix, the name and ".git", and that     *)
(* name is the name of the directory the run created.                    *)
C7_Urls ==
    /\ Interviewed
         => package.repository.url = <<"h","t","t","p","s",":","/","/","g","i","t","h","u","b",
                                       ".","c","o","m","/","l","i","c","e","n","s","e","-","p",
                                       "r","o","j","e","c","t","/">> \o answers.name
    /\ Called("writeFile package.json") => CreatedDirs = {answers.name}
    /\ pc = "Done"
         => /\ DOMAIN repos \ DOMAIN repos0 = {answers.name}
            /\ repos[answers.name].remotes =
                   ("origin" :> <<"g","i","t","@","g","i","t","h","u","b",".","c","o","m",":",
                                  "l","i","c","e","n","s","e","-","p","r","o","j","e","c","t",
                                  "/">> \o answers.name \o <<".","g","i","t">>)

C7_Witness ==
    /\ pc = "Done"
    /\ answers.name = <<"G","P","L","-","2">>
    /\ "origin" \in DOMAIN repos[answers.name].remotes

(* C8: a second run that derives a name whose directory the first run    *)
(* left behind changes nothing on disk, makes no call after mkdir, and   *)
(* ends Failed, with a non-zero exit code, at mkdir.                     *)
C8_SecondRunFailsAtMkdir ==
    (secondRun /\ Interviewed /\ answers.name \in DOMAIN fs0)
        => /\ fs = fs0
           /\ repos = repos0
           /\ log[Len(log)] \in {"transformAsync", "mkdir"}
           /\ pc \in {"transformAsync", "mkdir", "Failed"}
           /\ pc = "Failed" => exitCode # 0
           /\ (pc = "Failed" /\ ~flaky /\ licenseFile.readable) => failure = "mkdir"

C8_Witness ==
    /\ secondRun
    /\ Interviewed
    /\ answers.name \in DOMAIN fs0
    /\ DOMAIN fs0[answers.name] = {"package.json", "index.mjs", "index.js", "LICENSE"}
    /\ answers.name \in DOMAIN repos0
    /\ pc = "Failed"
    /\ failure = "mkdir"

(* The calls of a run that goes through every stage. *)
Stages ==
    {"Config.openDefault", "getString user.name", "getString user.email",
     "prompt spdx", "prompt longName", "prompt authorName", "prompt authorEmail",
     "prompt license", "transformAsync", "mkdir", "writeFile package.json",
     "writeFile index.mjs", "writeFile index.js", "writeFile LICENSE",
     "Repository.init", "refreshIndex", "addByPath package.json",
     "addByPath index.mjs", "addByPath index.js", "addByPath LICENSE",
     "index.write", "writeTree", "createCommit", "Remote.create"}

(* C9: a run ends Done with exit code 0, and then every stage was gone   *)
(* through, none failed and the remote is there; or it ends Failed with  *)
(* exit code 1, and a failed call is followed by no other call.          *)
C9_TerminalStates ==
    /\ pc = "Done"
         => /\ exitCode = 0
            /\ failure = "none"
            /\ \A op \in Stages : Called(op)
            /\ "origin" \in DOMAIN repos[Dir].remotes
    /\ pc = "Failed" => exitCode = 1
    /\ failure # "none"
         => /\ pc = "Failed"
            /\ \/ failure \in {"readFileSync cc0.txt", "readFile"}
               \/ failure = log[Len(log)]

C9_Witness ==
    /\ pc = "Failed"
    /\ exitCode = 1
    /\ failure = "createCommit"
    /\ Dir \in DOMAIN repos

(* C10: when the waiver is not accepted the run creates no directory,    *)
(* writes no file and creates no repository.                             *)
C10_NoWaiverNoPipeline ==
    (Interviewed /\ ~interview.license)
        => /\ fs = fs0
           /\ repos = repos0
           /\ ~Called("mkdir")


(* C11: when the compiler fails the run ends Failed, with a non-zero     *)
(* exit code, at that call, and the run has created nothing: the disk    *)
(* and the repositories are as they were when the run started, while     *)
(* the compiler runs and after it has failed.                            *)
C11_CompileFailureBeforeMutation ==
    /\ pc = "transformAsync" => (fs = fs0 /\ repos = repos0)
    /\ failure = "transformAsync"
         => /\ pc = "Failed"
            /\ exitCode # 0
            /\ log[Len(log)] = "transformAsync"
            /\ fs = fs0
            /\ repos = repos0

C11_Witness ==
    /\ failure = "transformAsync"
    /\ pc = "Failed"
    /\ exitCode = 1
    /\ fs = NoDirs

(* The four files of a package. *)
Artifacts == {"package.json", "index.mjs", "index.js", "LICENSE"}

(* C12: when a run is Done its directory holds the four artifacts and    *)
(* nothing else, none of them empty; its repository has one commit,      *)
(* without parent, with the fixed message, with the author of the        *)
(* answer record as author and as committer and with a tree of those     *)
(* four files; and it has one remote, origin.                            *)
C12_DoneState ==
    pc = "Done"
        => /\ DOMAIN fs[Dir] = Artifacts
           /\ \A f \in Artifacts : fs[Dir][f] # <<>>
           /\ Len(repos[Dir].commits) = 1
           /\ LET c == repos[Dir].commits[1]
              IN  /\ c.parents = <<>>
                  /\ c.message = <<"I","n","i","t","i","a","l"," ","c","o","m","m","i","t"," ",
                                   "(","b","y"," ","@","l","i","c","e","n","s","e","-","p","r",
                                   "o","j","e","c","t","/","g","e","n","e","r","a","t","o","r",
                                   ")">>
                  /\ c.author = [name  |-> interview.authorName,
                                 email |-> interview.authorEmail]
                  /\ c.committer = c.author
                  /\ c.tree = fs[Dir]
           /\ DOMAIN repos[Dir].remotes = {"origin"}

C12_Witness ==
    /\ pc = "Done"
    /\ interview.authorName = <<"A">>
    /\ Len(repos[Dir].commits) = 1
    /\ DOMAIN repos[Dir].commits[1].tree = Artifacts

(* C13: when the license file cannot be read, the failure of the read    *)
(* is the failure that ends the run, and the run ends Failed with a      *)
(* non-zero exit code.                                                   *)
C13_ReadFailureAbortsRun ==
    (Called("readFile") /\ ~licenseFile.readable)
        => /\ failure \in {"none", "readFile"}
           /\ readState = "rejected" => pc = "Failed"
           /\ pc \in Terminal => (pc = "Failed" /\ exitCode # 0)

(* C14: while the read of the license file is in progress main has made  *)
(* no other call, and the read has completed once the git configuration  *)
(* is opened.                                                            *)
C14_ReadCompletesBeforeConfig ==
    /\ readState = "pending" => log[Len(log)] = "readFile"
    /\ Called("Config.openDefault") => readState = "fulfilled"

(* The states of the orchestrator, in the order of main. *)
StageOrder ==
    <<"CollectAnswers", "ResolveIdentity", "Synthesize", "Compile", "Write",
      "Commit", "AttachRemote", "Done">>

(* The states main enters on its way to the call op: lines 36-96 collect *)
(* the inputs, lines 98-143 resolve the identity, synthesize the module  *)
(* and call the compiler, lines 151-155 write, lines 157-167 commit,     *)
(* line 169 attaches the remote.                                         *)
StagesEntered(op) ==
    CASE op = "transformAsync" -> <<"ResolveIdentity", "Synthesize", "Compile">>
      [] op \in {"mkdir"} \cup {"writeFile " \o f : f \in Artifacts} -> <<"Write">>
      [] op \in {"Repository.init", "refreshIndex", "index.write", "writeTree",
                 "createCommit"} \cup {"addByPath " \o f : f \in Artifacts}
           -> <<"Commit">>
      [] op = "Remote.create" -> <<"AttachRemote">>
      [] OTHER -> <<"CollectAnswers">>

(* The states entered over a sequence of calls, a state counted once     *)
(* for the consecutive calls made in it.                                 *)
RECURSIVE StateSequence(_)
StateSequence(calls) ==
    IF calls = <<>> THEN <<>>
    ELSE LET before  == StateSequence(SubSeq(calls, 1, Len(calls) - 1))
             entered == StagesEntered(calls[Len(calls)])
         IN  IF before # <<>> /\ before[Len(before)] = entered[1]
             THEN before \o Tail(entered)
             ELSE before \o entered

OrchestratorStates ==
    StateSequence(log) \o (IF pc = "Done" THEN <<"Done">> ELSE <<>>)

IsPrefix(s, t) == Len(s) <= Len(t) /\ s = SubSeq(t, 1, Len(s))

(* C15: the states a run has gone through are a prefix of the order      *)
(* CollectAnswers ... Done (so none twice and none skipped), and all of  *)
(* it when the run is Done.                                              *)
C15_LinearStages ==
    /\ IsPrefix(OrchestratorStates, StageOrder)
    /\ pc = "Done" => OrchestratorStates = StageOrder

C15_Witness ==
    /\ pc = "Failed"
    /\ failure = "index.write"
    /\ OrchestratorStates =
           <<"CollectAnswers", "ResolveIdentity", "Synthesize", "Compile", "Write", "Commit">>

(* The calls of lines 158-169, in source order; line 166 builds the      *)
(* signature in the same step that calls createCommit.                   *)
CommitterOrder ==
    <<"Repository.init", "refreshIndex", "addByPath package.json",
      "addByPath index.mjs", "addByPath index.js", "addByPath LICENSE",
      "index.write", "writeTree", "createCommit", "Remote.create">>

CommitterOps == {CommitterOrder[i] : i \in 1..Len(CommitterOrder)}

CommitterCalls == SelectSeq(log, LAMBDA op : op \in CommitterOps)

(* C16: the repository calls are made in the fixed order, none after one *)
(* that failed; the index is persisted only with all four files staged,  *)
(* a commit exists only over the persisted index of the four files, and  *)
(* a remote exists only if the commit does.                              *)
C16_CommitterOrder ==
    /\ IsPrefix(CommitterCalls, CommitterOrder)
    /\ failure \in CommitterOps => CommitterCalls[Len(CommitterCalls)] = failure
    /\ Called("writeTree") => DOMAIN gitIndex = Artifacts
    /\ repos # repos0
         => /\ repos[Dir].index # NoFiles => repos[Dir].index = gitIndex
            /\ repos[Dir].commits # <<>>
                 => /\ Called("createCommit")
                    /\ DOMAIN repos[Dir].index = Artifacts
                    /\ repos[Dir].commits[1].tree = repos[Dir].index
            /\ DOMAIN repos[Dir].remotes # {} => Len(repos[Dir].commits) = 1

C16_Witness ==
    /\ pc = "Failed"
    /\ failure = "Remote.create"
    /\ Len(repos[Dir].commits) = 1
    /\ DOMAIN repos[Dir].remotes = {}

(* The files in the order lines 152-155 write them. *)
WriterOrder == <<"package.json", "index.mjs", "index.js", "LICENSE">>

WriterCalls ==
    SelectSeq(log, LAMBDA op : op \in {"mkdir"} \cup {"writeFile " \o f : f \in Artifacts})

(* What lines 152-155 put into a file. *)
ContentWritten(file) ==
    CASE file = "package.json" -> StringifyPackage(package)
      [] file = "index.mjs"    -> index
      [] file = "index.js"     -> ObjectToString
      [] file = "LICENSE"      -> cc0.text

(* C17: the directory is made and the four files are written in the      *)
(* fixed order; when the k-th write fails the directory holds exactly    *)
(* the files written before it, as written, and no repository; when a    *)
(* repository call fails the four files are in place, and so is the      *)
(* repository from its initialization on, with what was done to it.      *)
C17_NoRollback ==
    /\ IsPrefix(WriterCalls, <<"mkdir">> \o [k \in 1..4 |-> "writeFile " \o WriterOrder[k]])
    /\ \A k \in 1..4 :
          failure = "writeFile " \o WriterOrder[k]
              => /\ log[Len(log)] = failure
                 /\ CreatedDirs = {Dir}
                 /\ DOMAIN fs[Dir] = {WriterOrder[i] : i \in 1..(k - 1)}
                 /\ \A f \in DOMAIN fs[Dir] : fs[Dir][f] = ContentWritten(f)
                 /\ repos = repos0
    /\ failure \in CommitterOps
          => /\ CreatedDirs = {Dir}
             /\ DOMAIN fs[Dir] = Artifacts
             /\ \A f \in Artifacts : fs[Dir][f] = ContentWritten(f)
             /\ failure = "Repository.init" => repos = repos0
             /\ failure # "Repository.init" => Dir \in DOMAIN repos
             /\ failure \in {"writeTree", "createCommit", "Remote.create"}
                   => repos[Dir].index = fs[Dir]
             /\ failure = "Remote.create" => Len(repos[Dir].commits) = 1

C17_Witness ==
    /\ failure = "writeFile index.js"
    /\ coercesData
    /\ DOMAIN fs[Dir] = {"package.json", "index.mjs"}
    /\ fs[Dir]["index.mjs"] = index

(* C18: the name of an accepted answer record holds no whitespace.       *)
C18_NameHasNoWhitespace ==
    "name" \in DOMAIN answers => ~HasWhitespace(answers.name)

C18_Witness ==
    /\ Interviewed
    /\ ~interview.spdx
    /\ answers.name = <<"G","P","L","-","2">>

(* The waiver text is resolved: it is the text of the source at hand.    *)
WaiverResolved ==
    cc0.text = IF cc0Source = "package" THEN CC0PackageText ELSE CC0FileText

(* C19: the waiver text is resolved before main makes its first step and *)
(* main runs only with it resolved; cc0 is assigned in the bootstrap and *)
(* by no later step.                                                     *)
C19_WaiverResolvedOnce ==
    /\ [](pc = "start" => log = <<>>)
    /\ []((pc # "start" /\ failure # "readFileSync cc0.txt") => WaiverResolved)
    /\ [][cc0' # cc0 => (pc = "start" /\ pc' = "main")]_vars

C19_Witness ==
    /\ pc = "Done"
    /\ cc0Source = "file"
    /\ cc0.text = CC0FileText
    /\ fs[Dir]["LICENSE"] = CC0FileText

====
